---- MODULE Spec2Model ----
(***************************************************************************)
(* Verification model of terrain-mesh: the arena, the geometry kernel, the *)
(* quad-bucket spatial index (Bvh), the incremental Delaunay mesh and the  *)
(* scape refinement driver.                                                *)
(*                                                                         *)
(* Numbers.  The program computes in f64.  The model computes in exact     *)
(* rationals <<n, d>> (d > 0, lowest terms); <<0, 0>> stands for NaN.      *)
(* Every comparison involving NaN is false and min/max ignore a NaN        *)
(* argument, as f64 does.  Rounding is not modelled.                       *)
(***************************************************************************)
EXTENDS Integers, Sequences, FiniteSets, TLC

VARIABLES
    staleLookup,   \* design of the triangle store's removal: what a lookup of a removed id does
    hashOrder,     \* iteration order of the boundary HashSet in DelaunayMesh::insert
    input_bbox,    \* the Bbox handed to DelaunayMesh::new
    mesh,          \* the DelaunayMesh: triangles, vertices, triangles_index
    status,        \* "ok" | "panic" (the process aborted)
    inserted,      \* the points handed to DelaunayMesh::insert so far, in order
    bad_tris,      \* bad_tris of the last completed insert
    roi,           \* Roi.triangles of the last completed insert
    heightfield,   \* scape: the Heightfield
    max_vertices,  \* scape: the vertex budget
    pc,            \* scape: position in the function
    iter,          \* scape: loop iterations started so far (the loop variable i)
    candidates,    \* scape: the candidate collection
    popped,        \* scape: the candidate extracted by the last iteration, and the collection it was taken from
    retained,      \* scape: the collection right after the last iteration's retain
    bvh,           \* Bvh driven directly: the index
    pairs,         \* Bvh driven directly: every (element, reference point) handed to Bvh::insert
    pattern,       \* Bvh driven directly: the fill pattern of the first inserts
    query,         \* Bvh driven directly: the last enclosing query and what it produced
    arena,         \* Arena driven directly: the data vector
    issued,        \* Arena driven directly: the ids push has returned, in order
    shadow,        \* Arena driven directly: for each issued id, the value last stored under it
    call,          \* geo driven directly: the last call of a function of geo.rs, its arguments and result
    at_node,       \* one Bvh::insert followed down the tree: the node the running activation of BvhNode::insert was called on
    at_pair,       \* one Bvh::insert followed down the tree: the (e, refpoint) of the running activation
    at_depth,      \* one Bvh::insert followed down the tree: activations of BvhNode::insert below the first
    at_pc          \* one Bvh::insert followed down the tree: "idle" | "insert" (an activation runs) | "returned"

vars == <<staleLookup, hashOrder, input_bbox, mesh, status, inserted, bad_tris, roi,
          heightfield, max_vertices, pc, iter, candidates, popped, retained,
          bvh, pairs, pattern, query, arena, issued, shadow, call,
          at_node, at_pair, at_depth, at_pc>>

meshVars == <<staleLookup, hashOrder, input_bbox, mesh, status, inserted, bad_tris, roi>>
scapeVars == <<heightfield, max_vertices, pc, iter, candidates, popped, retained>>
bvhVars == <<bvh, pairs, pattern, query>>
arenaVars == <<arena, issued, shadow>>
geoVars == <<call>>
descentVars == <<at_node, at_pair, at_depth, at_pc>>

(***************************************************************************)
(* f64 as rationals                                                        *)
(***************************************************************************)
Abs(n) == IF n < 0 THEN -n ELSE n

RECURSIVE Gcd(_, _)
Gcd(a, b) == IF b = 0 THEN a ELSE Gcd(b, a % b)

NaN == <<0, 0>>

IsNaN(a) == a[2] = 0

RNorm(n, d) ==
    IF d = 0 THEN NaN
    ELSE LET g == Gcd(Abs(n), Abs(d))
             s == IF d < 0 THEN -1 ELSE 1
         IN  <<s * (n \div g), s * (d \div g)>>

F64(n) == <<n, 1>>

\* the result of a halving, rounded as f64 rounds it: to the nearest value the
\* format holds, a tie to the one with the even last digit. The values the
\* model's format holds around the operands are the multiples of 1 / 2^FracBits
\* (an f64 holds the multiples of its last binary place, 2^-52 times the
\* operand's power of two); every other operation is exact.
FracBits == 2

Ulp == <<1, 2 ^ FracBits>>

F64Round(a) ==
    IF IsNaN(a) THEN NaN
    ELSE LET s == 2 ^ FracBits
             q == (a[1] * s) \div a[2]
             r == (a[1] * s) % a[2]
         IN  IF 2 * r < a[2] THEN RNorm(q, s)
             ELSE IF 2 * r > a[2] THEN RNorm(q + 1, s)
             ELSE RNorm(IF q % 2 = 0 THEN q ELSE q + 1, s)

RAdd(a, b) ==
    IF IsNaN(a) \/ IsNaN(b) THEN NaN
    ELSE IF a[2] = 1 /\ b[2] = 1 THEN <<a[1] + b[1], 1>>
    ELSE RNorm(a[1] * b[2] + b[1] * a[2], a[2] * b[2])

RSub(a, b) ==
    IF IsNaN(a) \/ IsNaN(b) THEN NaN
    ELSE IF a[2] = 1 /\ b[2] = 1 THEN <<a[1] - b[1], 1>>
    ELSE RNorm(a[1] * b[2] - b[1] * a[2], a[2] * b[2])

RMul(a, b) ==
    IF IsNaN(a) \/ IsNaN(b) THEN NaN
    ELSE IF a[2] = 1 /\ b[2] = 1 THEN <<a[1] * b[1], 1>>
    ELSE RNorm(a[1] * b[1], a[2] * b[2])

RDiv(a, b) == IF IsNaN(a) \/ IsNaN(b) THEN NaN ELSE RNorm(a[1] * b[2], a[2] * b[1])

RLe(a, b) == ~IsNaN(a) /\ ~IsNaN(b) /\ a[1] * b[2] <= b[1] * a[2]

RLt(a, b) == ~IsNaN(a) /\ ~IsNaN(b) /\ a[1] * b[2] < b[1] * a[2]

\* f64::min, f64::max: a NaN argument is ignored
RMin(a, b) == IF IsNaN(b) THEN a ELSE IF IsNaN(a) THEN b ELSE IF RLe(a, b) THEN a ELSE b

RMax(a, b) == IF IsNaN(b) THEN a ELSE IF IsNaN(a) THEN b ELSE IF RLe(b, a) THEN a ELSE b

\* TLC evaluates an operator's arguments only when they are used; Strict(v)
\* computes v on the spot, which keeps the evaluation of a long loop shallow.
Strict(v) == v = v

\* `x as u32`: truncation toward zero, saturating at 0 (NaN casts to 0)
AsU32(a) == IF IsNaN(a) \/ a[1] <= 0 THEN 0 ELSE a[1] \div a[2]

(***************************************************************************)
(* geo.rs: Vec2, Bbox, Circle                                              *)
(***************************************************************************)
Vec2New(x, y) == [x |-> x, y |-> y]

Pt(x, y) == Vec2New(F64(x), F64(y))

Vec2Zero == Pt(0, 0)

Vec2Add(a, b) == Vec2New(RAdd(a.x, b.x), RAdd(a.y, b.y))

Vec2Sub(a, b) == Vec2New(RSub(a.x, b.x), RSub(a.y, b.y))

Vec2AddScalar(a, s) == Vec2New(RAdd(a.x, s), RAdd(a.y, s))

Vec2SubScalar(a, s) == Vec2New(RSub(a.x, s), RSub(a.y, s))

Vec2DivScalar(a, s) == Vec2New(RDiv(a.x, s), RDiv(a.y, s))

Dot(a, b) == RAdd(RMul(a.x, b.x), RMul(a.y, b.y))

Norm2(a) == Dot(a, a)

\* (b - a) x (c - a)
Cross(a, b, c) ==
    RSub(RMul(RSub(b.x, a.x), RSub(c.y, a.y)), RMul(RSub(b.y, a.y), RSub(c.x, a.x)))

BboxNew(p) == [min |-> p, max |-> p]

BboxCenter(b) ==
    LET c == Vec2DivScalar(Vec2Add(b.min, b.max), F64(2))
    IN  Vec2New(F64Round(c.x), F64Round(c.y))

\* the second and third quadrant in each other's place
BboxSplit_TopLeftFirst(b, p) ==
    << [min |-> b.min, max |-> p],
       [min |-> Vec2New(b.min.x, p.y), max |-> Vec2New(p.x, b.max.y)],
       [min |-> Vec2New(p.x, b.min.y), max |-> Vec2New(b.max.x, p.y)],
       [min |-> p, max |-> b.max] >>

BboxSplit(b, p) ==
    << [min |-> b.min, max |-> p],
       [min |-> Vec2New(p.x, b.min.y), max |-> Vec2New(b.max.x, p.y)],
       [min |-> Vec2New(b.min.x, p.y), max |-> Vec2New(p.x, b.max.y)],
       [min |-> p, max |-> b.max] >>

BboxExpand(b, p) ==
    [min |-> Vec2New(RMin(b.min.x, p.x), RMin(b.min.y, p.y)),
     max |-> Vec2New(RMax(b.max.x, p.x), RMax(b.max.y, p.y))]

BboxContains(b, p) ==
    RLe(b.min.x, p.x) /\ RLe(b.min.y, p.y) /\ RLe(p.x, b.max.x) /\ RLe(p.y, b.max.y)

\* A Circle is kept as its centre and one point of its circumference:
\* radius = dist(center, through).
CircleNew(center, through) == [center |-> center, through |-> through]

\* Circle::circumcircle is a stub (unimplemented!()) in geo.rs; this is the
\* circle through a, b, c of the design.  Collinear points give the NaN
\* circle, which contains nothing.
Circumcircle(a, b, c) ==
    LET ab == Vec2Sub(b, a)
        ac == Vec2Sub(c, a)
        d  == RMul(F64(2), RSub(RMul(ab.x, ac.y), RMul(ab.y, ac.x)))
        ux == RSub(RMul(ac.y, Norm2(ab)), RMul(ab.y, Norm2(ac)))
        uy == RSub(RMul(ab.x, Norm2(ac)), RMul(ac.x, Norm2(ab)))
    IN  IF d[1] = 0
        THEN CircleNew(Vec2New(NaN, NaN), a)
        ELSE CircleNew(Vec2Add(a, Vec2New(RDiv(ux, d), RDiv(uy, d))), a)

\* the circumference left out: center.dist(p) < radius
CircleContains_Open(c, p) ==
    RLt(RSub(Norm2(p), Norm2(c.through)),
        RMul(F64(2), Dot(c.center, Vec2Sub(p, c.through))))

\* center.dist(p) <= radius, that is |p - center|^2 <= |through - center|^2,
\* evaluated as |p|^2 - |through|^2 <= 2 center.(p - through)
CircleContains(c, p) ==
    RLe(RSub(Norm2(p), Norm2(c.through)),
        RMul(F64(2), Dot(c.center, Vec2Sub(p, c.through))))

(***************************************************************************)
(* arena.rs: Arena<T> is a Vec<T>; an ArenaId is the index ix (from 0)     *)
(***************************************************************************)
ArenaNew == <<>>

ArenaPushData(data, v) == Append(data, v)

\* the index taken before the element is pushed: the id of the element before it
ArenaPushId_LastIndex(data) == IF Len(data) = 0 THEN 0 ELSE Len(data) - 1

\* the id Arena::push returns: data.len() - 1 after the push
ArenaPushId(data) == Len(data)

\* Arena::replace(id, v): the data after the swap; the old value is returned
ArenaReplace(data, id, v) == [data EXCEPT ![id + 1] = v]

ArenaHas(data, id) == id + 1 \in 1..Len(data)

ArenaGet(data, id) == data[id + 1]

\* Arena has no remove in arena.rs; the design asks for a logical deletion
\* that keeps every other identity: the slot is marked dead.
ArenaRemove(data, id) == [data EXCEPT ![id + 1].live = FALSE]

IsLive(data, id) == ArenaHas(data, id) /\ ArenaGet(data, id).live

LiveIds(data) == {id \in 0..(Len(data) - 1) : data[id + 1].live}

(***************************************************************************)
(* bvh.rs: Bvh, BvhNode                                                    *)
(***************************************************************************)
LeafCapacity == 64

Leaf(elems, bbox) == [kind |-> "Leaf", elems |-> elems, bbox |-> bbox]

Branch(bbox, children) == [kind |-> "Branch", bbox |-> bbox, children |-> children]

BvhNew(bbox) == Leaf(<<>>, bbox)

BvhNodeContains(n, p) == BboxContains(n.bbox, p)

\* `for child in children.iter_mut() { if child.contains(refpoint) { ...; break } }`:
\* the first child whose box contains the point, 0 when there is none
FirstChild(children, refpoint) ==
    IF \E k \in 1..4 : BvhNodeContains(children[k], refpoint)
    THEN CHOOSE k \in 1..4 :
            /\ BvhNodeContains(children[k], refpoint)
            /\ \A j \in 1..(k - 1) : ~BvhNodeContains(children[j], refpoint)
    ELSE 0

RECURSIVE BvhNodeInsert(_, _, _)
RECURSIVE Redistribute(_, _, _, _)

\* a pair pushed straight onto the child leaf's vector, which is never split
InsertIntoChild_PushOnly(children, e, refpoint) ==
    LET k == FirstChild(children, refpoint)
    IN  IF k = 0 THEN children
        ELSE IF children[k].kind = "Leaf"
             THEN [children EXCEPT ![k].elems = Append(@, <<e, refpoint>>)]
             ELSE [children EXCEPT ![k] = BvhNodeInsert(@, e, refpoint)]

\* one step of the loops over the children: the pair goes into the first child
\* whose box contains its reference point; a pair no child contains is dropped
InsertIntoChild(children, e, refpoint) ==
    LET k == FirstChild(children, refpoint)
    IN  IF k = 0 THEN children
        ELSE [children EXCEPT ![k] = BvhNodeInsert(@, e, refpoint)]

\* the drain loop of a split: the children after the pairs elems[lo..hi] were
\* handed out, in order (the first half of the range, then the second)
\* a drain that starts after the first pair
Redistribute_SkipsFirst(children, elems, lo, hi) ==
    IF hi < lo \/ ~Strict(children) THEN children
    ELSE IF lo = hi
         THEN IF lo = 1 THEN children
              ELSE InsertIntoChild(children, elems[lo][1], elems[lo][2])
    ELSE Redistribute(Redistribute(children, elems, lo, (lo + hi) \div 2),
                      elems, ((lo + hi) \div 2) + 1, hi)

Redistribute(children, elems, lo, hi) ==
    IF hi < lo \/ ~Strict(children) THEN children
    ELSE IF lo = hi THEN InsertIntoChild(children, elems[lo][1], elems[lo][2])
    ELSE Redistribute(Redistribute(children, elems, lo, (lo + hi) \div 2),
                      elems, ((lo + hi) \div 2) + 1, hi)

\* a leaf that keeps its box as it is when it takes a pair
BvhNodeInsert_NoExpand(n, e, refpoint) ==
    IF n.kind = "Leaf"
    THEN LET elems == Append(n.elems, <<e, refpoint>>)
             bbox  == n.bbox
         IN  IF Len(elems) > LeafCapacity
             THEN LET quads == BboxSplit(bbox, BboxCenter(bbox))
                      children == [k \in 1..4 |-> Leaf(<<>>, quads[k])]
                  IN  Branch(bbox, Redistribute(children, elems, 1, Len(elems)))
             ELSE Leaf(elems, bbox)
    ELSE [n EXCEPT !.children = InsertIntoChild(@, e, refpoint)]

BvhNodeInsert(n, e, refpoint) ==
    IF n.kind = "Leaf"
    THEN LET elems == Append(n.elems, <<e, refpoint>>)
             bbox  == BboxExpand(n.bbox, refpoint)
         IN  IF Len(elems) > LeafCapacity
             THEN LET quads == BboxSplit(bbox, BboxCenter(bbox))
                      children == [k \in 1..4 |-> Leaf(<<>>, quads[k])]
                  IN  Branch(bbox, Redistribute(children, elems, 1, Len(elems)))
             ELSE Leaf(elems, bbox)
    ELSE [n EXCEPT !.children = InsertIntoChild(@, e, refpoint)]

BvhInsert(b, e, refpoint) == BvhNodeInsert(b, e, refpoint)

\* The elements BvhNode::enclosing hands to its predicate, in order: the node
\* stack is popped from the end, so the children of a branch whose box contains
\* the query point are visited last child first; every pair of a visited leaf
\* is tested.
RECURSIVE Visited(_, _)
Visited(n, refpoint) ==
    IF n.kind = "Leaf"
    THEN [i \in 1..Len(n.elems) |-> n.elems[i][1]]
    ELSE IF BboxContains(n.bbox, refpoint)
         THEN Visited(n.children[4], refpoint) \o Visited(n.children[3], refpoint)
              \o Visited(n.children[2], refpoint) \o Visited(n.children[1], refpoint)
         ELSE <<>>

\* every pair stored in the tree
RECURSIVE Stored(_)
Stored(n) ==
    IF n.kind = "Leaf" THEN n.elems
    ELSE Stored(n.children[1]) \o Stored(n.children[2])
         \o Stored(n.children[3]) \o Stored(n.children[4])

(***************************************************************************)
(* mesh.rs: DelaunayMesh                                                   *)
(***************************************************************************)
Padding == 20

\* a slip in the vertex list: the first vertex is stored again in place of the third
NewTriangle_RepeatsVertex(va, vb, vc, circumcircle) ==
    [vertices |-> <<va, vb, va>>, circumcircle |-> circumcircle, live |-> TRUE]

\* Triangle { vertices: [va, vb, vc], circumcircle }, with the store's live mark
NewTriangle(va, vb, vc, circumcircle) ==
    [vertices |-> <<va, vb, vc>>, circumcircle |-> circumcircle, live |-> TRUE]

Position(dm, v) == ArenaGet(dm.vertices, v)

\* the second half of insert_triangle: push the triangle, file it under its circumcentre
StoreTriangle(dm, va, vb, vc, circumcircle) ==
    [dm EXCEPT
        !.triangles = ArenaPushData(@, NewTriangle(va, vb, vc, circumcircle)),
        !.triangles_index = BvhInsert(@, ArenaPushId(dm.triangles), circumcircle.center)]

\* DelaunayMesh::insert_triangle; the new triangle's id is ArenaPushId(dm.triangles)
InsertTriangle(dm, va, vb, vc) ==
    StoreTriangle(dm, va, vb, vc,
                  Circumcircle(Position(dm, va), Position(dm, vb), Position(dm, vc)))

\* the closure add_super_triangle of DelaunayMesh::new
AddSuperTriangle(dm, a, b, c) ==
    LET va == ArenaPushId(dm.vertices)
        vb == va + 1
        vc == va + 2
        withVertices == [dm EXCEPT !.vertices = ArenaPushData(ArenaPushData(ArenaPushData(@, a), b), c)]
    IN  InsertTriangle(withVertices, va, vb, vc)

PaddedBbox(bbox) ==
    LET b1 == BboxExpand(bbox, Vec2SubScalar(bbox.min, F64(Padding)))
    IN  BboxExpand(b1, Vec2AddScalar(b1.max, F64(Padding)))

\* the third corner handed to the first and to the second add_super_triangle
SuperCorner1(min, max) == Vec2New(min.y, max.x)

SuperCorner2(min, max) == Vec2New(min.x, max.y)

DelaunayMeshNew(inbox) ==
    LET bbox == PaddedBbox(inbox)
        dm == [triangles |-> ArenaNew, vertices |-> ArenaNew, triangles_index |-> BvhNew(bbox)]
        min == bbox.min
        max == bbox.max
    IN  AddSuperTriangle(AddSuperTriangle(dm, min, max, SuperCorner1(min, max)),
                         max, min, SuperCorner2(min, max))

\* the closure handed to enclosing: self.triangles[tid].circumcircle.contains(p)
IsBad(dm, tid, p) == CircleContains(ArenaGet(dm.triangles, tid).circumcircle, p)

SeqToSet(s) == { s[i] : i \in 1..Len(s) }

\* the directed edges (vertices[v], vertices[(v + 1) % 3]) of a triangle
TriEdges(t) == { <<t.vertices[v], t.vertices[(v % 3) + 1]>> : v \in 1..3 }

Rev(edge) == <<edge[2], edge[1]>>

\* The boundary HashSet after the toggling loop: every directed edge of every
\* bad triangle toggles itself and its reverse, so what stays is what was
\* toggled an odd number of times.
Toggled(edges) ==
    LET Toggles(e) == Cardinality({ i \in 1..Len(edges) : edges[i] = e \/ edges[i] = Rev(e) })
    IN  { e \in SeqToSet(edges) \cup { Rev(f) : f \in SeqToSet(edges) } : Toggles(e) % 2 = 1 }

\* the directed edges of the bad triangles, one entry per triangle and side v:
\* (tri.vertices[v], tri.vertices[(v + 1) % 3])
BadEdges(dm, bad) ==
    [ i \in 1..(3 * Len(bad)) |->
        << ArenaGet(dm.triangles, bad[((i - 1) \div 3) + 1]).vertices[((i - 1) % 3) + 1],
           ArenaGet(dm.triangles, bad[((i - 1) \div 3) + 1]).vertices[(i % 3) + 1] >> ]

Boundary(dm, bad) == Toggled(BadEdges(dm, bad))

EdgeLess(e, f) == e[1] < f[1] \/ (e[1] = f[1] /\ e[2] < f[2])

\* the order in which `for (v0, v1) in boundary` meets the edges: the HashSet
\* gives no order; the model takes the edges ascending or descending
RECURSIVE EdgeOrder(_, _)
EdgeOrder(S, order) ==
    IF S = {} THEN <<>>
    ELSE LET first == CHOOSE e \in S : \A f \in S \ {e} :
                          IF order = "asc" THEN EdgeLess(e, f) ELSE EdgeLess(f, e)
         IN  <<first>> \o EdgeOrder(S \ {first}, order)

\* an off-by-one removal loop: the last bad triangle stays in the store
RECURSIVE RemoveBadTris_KeepsLast(_, _, _, _)
RemoveBadTris_KeepsLast(triangles, bad, lo, hi) ==
    IF hi < lo \/ ~Strict(triangles) THEN triangles
    ELSE IF lo = hi THEN (IF lo = Len(bad) THEN triangles ELSE ArenaRemove(triangles, bad[lo]))
    ELSE RemoveBadTris_KeepsLast(RemoveBadTris_KeepsLast(triangles, bad, lo, (lo + hi) \div 2),
                                 bad, ((lo + hi) \div 2) + 1, hi)

\* `for tri in bad_tris { self.triangles.remove(tri) }` over bad[lo..hi]
RECURSIVE RemoveBadTris(_, _, _, _)
RemoveBadTris(triangles, bad, lo, hi) ==
    IF hi < lo \/ ~Strict(triangles) THEN triangles
    ELSE IF lo = hi THEN ArenaRemove(triangles, bad[lo])
    ELSE RemoveBadTris(RemoveBadTris(triangles, bad, lo, (lo + hi) \div 2),
                       bad, ((lo + hi) \div 2) + 1, hi)

\* `for (v0, v1) in boundary { roi.push(self.insert_triangle(v0, v1, vp)) }`
\* over edges[lo..hi]
RECURSIVE Retriangulate(_, _, _, _, _)
Retriangulate(dm, edges, vp, lo, hi) ==
    IF hi < lo \/ ~Strict(dm) THEN dm
    ELSE IF lo = hi THEN InsertTriangle(dm, edges[lo][1], edges[lo][2], vp)
    ELSE Retriangulate(Retriangulate(dm, edges, vp, lo, (lo + hi) \div 2),
                       edges, vp, ((lo + hi) \div 2) + 1, hi)

\* a mesh that does not store a point twice: a point already in the vertex
\* store is connected under the id it has
InsertBoundary_ReusesVertex(dm, p, bad, boundary) ==
    IF \E v \in 0..(Len(dm.vertices) - 1) : Position(dm, v) = p
    THEN [panic |-> FALSE,
          mesh |-> Retriangulate([dm EXCEPT !.triangles = RemoveBadTris(@, bad, 1, Len(bad))],
                                 boundary,
                                 CHOOSE v \in 0..(Len(dm.vertices) - 1) : Position(dm, v) = p,
                                 1, Len(boundary)),
          bad_tris |-> bad,
          roi |-> [i \in 1..Len(boundary) |-> ArenaPushId(dm.triangles) + i - 1]]
    ELSE [panic |-> FALSE,
          mesh |-> Retriangulate([dm EXCEPT !.triangles = RemoveBadTris(@, bad, 1, Len(bad)),
                                            !.vertices = ArenaPushData(@, p)],
                                 boundary, ArenaPushId(dm.vertices), 1, Len(boundary)),
          bad_tris |-> bad,
          roi |-> [i \in 1..Len(boundary) |-> ArenaPushId(dm.triangles) + i - 1]]

\* DelaunayMesh::insert(p) from the boundary on: remove the bad triangles, push
\* the vertex, connect every boundary edge to it
InsertBoundary(dm, p, bad, boundary) ==
    [panic |-> FALSE,
     mesh |-> Retriangulate([dm EXCEPT !.triangles = RemoveBadTris(@, bad, 1, Len(bad)),
                                       !.vertices = ArenaPushData(@, p)],
                            boundary, ArenaPushId(dm.vertices), 1, Len(boundary)),
     bad_tris |-> bad,
     roi |-> [i \in 1..Len(boundary) |-> ArenaPushId(dm.triangles) + i - 1]]

InsertGiven(dm, p, order, bad) == InsertBoundary(dm, p, bad, EdgeOrder(Boundary(dm, bad), order))

\* DelaunayMesh::insert(p).  The index still holds the ids of removed
\* triangles, so the predicate is also applied to them: the lookup
\* self.triangles[tid] of a removed id either fails (panic) or reads the dead
\* slot, depending on how the store removes.
DelaunayInsert(dm, p, order, stale) ==
    IF stale = "panic" /\ \E tid \in SeqToSet(Visited(dm.triangles_index, p)) : ~IsLive(dm.triangles, tid)
    THEN [panic |-> TRUE, mesh |-> dm, bad_tris |-> <<>>, roi |-> <<>>]
    ELSE InsertGiven(dm, p, order,
                     SelectSeq(Visited(dm.triangles_index, p), LAMBDA tid : IsBad(dm, tid, p)))

(***************************************************************************)
(* The mesh driven by any caller: DelaunayMesh::new, then inserts          *)
(***************************************************************************)
MaxInserts == 3

BoxOf(x0, y0, x1, y1) == BboxExpand(BboxNew(Pt(x0, y0)), Pt(x1, y1))

Boxes == { BoxOf(0, 0, 2, 2), BoxOf(0, 0, 2, 1), BoxOf(0, 1, 2, 2) }

Corners(b) == { b.min, b.max, Vec2New(b.max.x, b.min.y), Vec2New(b.min.x, b.max.y) }

\* the points a caller inserts: the corners of its box and the grid point (1, 1) in it
InsertPoints(b) == Corners(b) \cup { Pt(1, 1) }

StoreDesigns == { "panic", "dead_entry" }

HashOrders == { "asc", "desc" }

ScapeIdle ==
    /\ heightfield = [width |-> 0, height |-> 0, shape |-> "none"]
    /\ max_vertices = 0
    /\ pc = "idle"
    /\ iter = 0
    /\ candidates = <<>>
    /\ popped = <<>>
    /\ retained = <<>>

ArenaIdle ==
    /\ arena = ArenaNew
    /\ issued = <<>>
    /\ shadow = <<>>

GeoIdle == call = [op |-> "none"]

DescentIdle ==
    /\ at_node = BvhNew(BboxNew(Vec2Zero))
    /\ at_pair = <<>>
    /\ at_depth = 0
    /\ at_pc = "idle"

BvhIdle ==
    /\ bvh = BvhNew(BboxNew(Vec2Zero))
    /\ pairs = <<>>
    /\ pattern = "none"
    /\ query = <<>>

MeshInit(boxes) ==
    /\ staleLookup \in StoreDesigns
    /\ hashOrder \in HashOrders
    /\ input_bbox \in boxes
    /\ mesh = DelaunayMeshNew(input_bbox)
    /\ status = "ok"
    /\ inserted = <<>>
    /\ bad_tris = <<>>
    /\ roi = <<>>

Init == MeshInit(Boxes) /\ ScapeIdle /\ BvhIdle /\ ArenaIdle /\ GeoIdle /\ DescentIdle

\* one call mesh.insert(p)
InsertCall(p) ==
    /\ status = "ok"
    /\ \E r \in {DelaunayInsert(mesh, p, hashOrder, staleLookup)} :
           /\ status' = IF r.panic THEN "panic" ELSE "ok"
           /\ mesh' = r.mesh
           /\ inserted' = IF r.panic THEN inserted ELSE Append(inserted, p)
           /\ bad_tris' = IF r.panic THEN bad_tris ELSE r.bad_tris
           /\ roi' = IF r.panic THEN roi ELSE r.roi
    /\ UNCHANGED <<staleLookup, hashOrder, input_bbox>>
    /\ UNCHANGED scapeVars
    /\ UNCHANGED bvhVars
    /\ UNCHANGED arenaVars
    /\ UNCHANGED geoVars
    /\ UNCHANGED descentVars

Insert(p) == Len(inserted) < MaxInserts /\ InsertCall(p)

Next == \E p \in InsertPoints(input_bbox) : Insert(p)

Spec == Init /\ [][Next]_vars

(***************************************************************************)
(* The end-to-end scenario: a fresh mesh over [0,10]x[0,10], then the four *)
(* corners and the centre of the box, each inserted once, in any order     *)
(***************************************************************************)
ScenarioBox == BoxOf(0, 0, 10, 10)

ScenarioPoints == Corners(ScenarioBox) \cup { BboxCenter(ScenarioBox) }

ScenarioInit == MeshInit({ScenarioBox}) /\ ScapeIdle /\ BvhIdle /\ ArenaIdle /\ GeoIdle /\ DescentIdle

InsertFresh(p) == p \notin SeqToSet(inserted) /\ InsertCall(p)

ScenarioNext == \E p \in ScenarioPoints : InsertFresh(p)

SpecScenario == ScenarioInit /\ [][ScenarioNext]_vars

(***************************************************************************)
(* Properties of the mesh                                                  *)
(***************************************************************************)
LiveTriangles == LiveIds(mesh.triangles)

Verts(tid) == ArenaGet(mesh.triangles, tid).vertices

VertSet(tid) == SeqToSet(Verts(tid))

Positions(tid) == { Position(mesh, v) : v \in VertSet(tid) }

\* C1: right after an insert every triangle of the returned ROI is in the live
\* triangle set and no triangle that insert found bad is.
C1_RoiLiveBadGone ==
    inserted # <<>> =>
        /\ \A tid \in SeqToSet(roi) : IsLive(mesh.triangles, tid)
        /\ \A tid \in SeqToSet(bad_tris) : ~IsLive(mesh.triangles, tid)

\* an insert into a mesh that earlier inserts built, that removed and created triangles
C1_Witness == Len(inserted) >= 2 /\ roi # <<>> /\ bad_tris # <<>>

\* C2: the three vertex identities of every live triangle are pairwise distinct.
C2_DistinctVertices == \A tid \in LiveTriangles : Cardinality(VertSet(tid)) = 3

\* live triangles made by an insert, next to the super triangles' successors
C2_Witness == roi # <<>> /\ \E tid \in SeqToSet(roi) : tid \in LiveTriangles

SharedEdges(t, u) ==
    { e \in TriEdges(ArenaGet(mesh.triangles, t)) :
        e \in TriEdges(ArenaGet(mesh.triangles, u)) \/ Rev(e) \in TriEdges(ArenaGet(mesh.triangles, u)) }

\* C3: two distinct live triangles that share an edge list it in opposite
\* cyclic orders; no two live triangles have the same three vertices; no edge
\* belongs to more than two live triangles.
C3_PlanarConsistency ==
    /\ \A t, u \in LiveTriangles : t # u =>
          /\ \A e \in SharedEdges(t, u) : Rev(e) \in TriEdges(ArenaGet(mesh.triangles, u))
          /\ VertSet(t) # VertSet(u)
    /\ \A t \in LiveTriangles : \A e \in TriEdges(ArenaGet(mesh.triangles, t)) :
          Cardinality({ u \in LiveTriangles : {e[1], e[2]} \subseteq VertSet(u) }) <= 2

\* p lies in the closed triangle a b c
InTriangle(a, b, c, p) ==
    LET d1 == Cross(a, b, p)
        d2 == Cross(b, c, p)
        d3 == Cross(c, a, p)
    IN  \/ (d1[1] >= 0 /\ d2[1] >= 0 /\ d3[1] >= 0)
        \/ (d1[1] <= 0 /\ d2[1] <= 0 /\ d3[1] <= 0)

\* strictly inside the circle: |p - center| < radius
CircleContainsStrictly(c, p) ==
    RLt(RSub(Norm2(p), Norm2(c.through)),
        RMul(F64(2), Dot(c.center, Vec2Sub(p, c.through))))

\* no live triangle has another inserted point strictly inside its circumcircle
Delaunay ==
    \A tid \in LiveTriangles : \A p \in SeqToSet(inserted) :
        p \notin Positions(tid) =>
            ~CircleContainsStrictly(ArenaGet(mesh.triangles, tid).circumcircle, p)

\* C4: once the four corners and the centre are inserted, no live triangle's
\* circumcircle has another inserted point strictly inside.
C4_ScenarioDelaunay ==
    (status = "ok" /\ SeqToSet(inserted) = ScenarioPoints) => Delaunay

Padded(b) == [min |-> Vec2SubScalar(b.min, F64(Padding)), max |-> Vec2AddScalar(b.max, F64(Padding))]

\* the integer grid points of a box with integer corners
GridPoints(b) ==
    { Pt(x, y) : x \in (b.min.x[1])..(b.max.x[1]), y \in (b.min.y[1])..(b.max.y[1]) }

\* C5: DelaunayMesh::new leaves exactly two triangles, their vertices corners of
\* the box padded by 20, sharing one diagonal of it, their third vertices its
\* two other corners, so that every point of the input box is in one of them.
C5_SuperTrianglesCover ==
    inserted = <<>> =>
        LET rect == Padded(input_bbox)
        IN  /\ Cardinality(LiveTriangles) = 2
            /\ \A tid \in LiveTriangles :
                  /\ Positions(tid) \subseteq Corners(rect)
                  /\ Cardinality(Positions(tid)) = 3
            /\ \E d \in { {rect.min, rect.max},
                          {Vec2New(rect.min.x, rect.max.y), Vec2New(rect.max.x, rect.min.y)} } :
                  /\ \A tid \in LiveTriangles : d \subseteq Positions(tid)
                  /\ { CHOOSE q \in Positions(tid) : q \notin d : tid \in LiveTriangles }
                        = Corners(rect) \ d
            /\ \A p \in GridPoints(input_bbox) : \E tid \in LiveTriangles :
                  InTriangle(Position(mesh, Verts(tid)[1]), Position(mesh, Verts(tid)[2]),
                             Position(mesh, Verts(tid)[3]), p)

(***************************************************************************)
(* The spatial index driven directly: Bvh::new, then inserts and queries.  *)
(* An element is a circle filed under its centre, the predicate is the     *)
(* circle's containment of the query point, as the mesh uses the index.    *)
(***************************************************************************)
PatternLen == 65

MaxBvhInserts == 67

BvhBox == BoxOf(0, 0, 16, 16)

Patterns == { "spread", "cluster", "far" }

\* the reference point of the k-th insert (k from 0) of a fill pattern: 16 grid
\* points over the whole box, or 16 grid points of its lower left quarter
PatternPoint(pat, k) ==
    IF pat = "far" /\ k = 0
    THEN Pt(18, 18)
    ELSE IF pat = "cluster"
    THEN Pt(2 * (k % 4) + 1, 2 * ((k \div 4) % 4) + 1)
    ELSE Pt(4 * (k % 4) + 2, 4 * ((k \div 4) % 4) + 2)

PatternReach(k) == 1 + 3 * (k % 3)

FreePoints == { Pt(3, 3), Pt(8, 8), Pt(13, 13), Pt(18, 18) }

Reaches == { 1, 7 }

QueryPoints == { Pt(4, 4), Pt(12, 7), Pt(14, 14) }

Element(k, refpoint, reach) ==
    [id |-> k, circle |-> CircleNew(refpoint, Vec2Add(refpoint, Pt(reach, 0)))]

ElementContains(e, q) == CircleContains(e.circle, q)

\* Bvh::enclosing(refpoint, contains): the visited elements the predicate accepts, in order
Enclosing(b, refpoint) == SelectSeq(Visited(b, refpoint), LAMBDA e : ElementContains(e, refpoint))

MeshIdle ==
    /\ staleLookup = "panic"
    /\ hashOrder = "asc"
    /\ input_bbox = BboxNew(Vec2Zero)
    /\ mesh = [triangles |-> ArenaNew, vertices |-> ArenaNew, triangles_index |-> BvhNew(BboxNew(Vec2Zero))]
    /\ status = "ok"
    /\ inserted = <<>>
    /\ bad_tris = <<>>
    /\ roi = <<>>

BvhInit ==
    /\ bvh = BvhNew(BvhBox)
    /\ pairs = <<>>
    /\ pattern \in Patterns
    /\ query = <<>>
    /\ MeshIdle
    /\ ScapeIdle
    /\ ArenaIdle
    /\ GeoIdle
    /\ DescentIdle

\* one call index.insert(e, refpoint)
BvhInsertCall(refpoint, reach) ==
    /\ Len(pairs) < MaxBvhInserts
    /\ \E e \in { Element(Len(pairs), refpoint, reach) } :
          /\ bvh' = BvhInsert(bvh, e, refpoint)
          /\ pairs' = Append(pairs, <<e, refpoint>>)
    /\ query' = <<>>
    /\ UNCHANGED pattern
    /\ UNCHANGED meshVars
    /\ UNCHANGED scapeVars
    /\ UNCHANGED arenaVars
    /\ UNCHANGED geoVars
    /\ UNCHANGED descentVars

\* one call index.enclosing(q, contains), collected
BvhQuery(q) ==
    /\ pairs # <<>>
    /\ query = <<>>
    /\ query' = <<q, Enclosing(bvh, q)>>
    /\ UNCHANGED <<bvh, pairs, pattern>>
    /\ UNCHANGED meshVars
    /\ UNCHANGED scapeVars
    /\ UNCHANGED arenaVars
    /\ UNCHANGED geoVars
    /\ UNCHANGED descentVars

\* the first PatternLen inserts follow the fill pattern, the later ones are free
PatternInsert ==
    /\ Len(pairs) < PatternLen
    /\ BvhInsertCall(PatternPoint(pattern, Len(pairs)), PatternReach(Len(pairs)))

FreeInsert(refpoint, reach) ==
    /\ Len(pairs) >= PatternLen
    /\ BvhInsertCall(refpoint, reach)

BvhNext ==
    \/ PatternInsert
    \/ \E refpoint \in FreePoints, reach \in Reaches : FreeInsert(refpoint, reach)
    \/ \E q \in QueryPoints : BvhQuery(q)

SpecBvh == BvhInit /\ [][BvhNext]_vars

\* what a linear scan of every inserted pair finds
LinearScan(q) == { pairs[i][1] : i \in { j \in 1..Len(pairs) : ElementContains(pairs[j][1], q) } }

\* C6: enclosing produces exactly the inserted elements the predicate accepts,
\* each once.
C6_EnclosingIsLinearScan ==
    query # <<>> =>
        /\ SeqToSet(query[2]) = LinearScan(query[1])
        /\ Len(query[2]) = Cardinality(SeqToSet(query[2]))

(***************************************************************************)
(* scape.rs                                                                *)
(* A heightfield is a width, a height and a shape giving the height of     *)
(* every cell; a read outside width x height is answered by the same       *)
(* shape, since the trait leaves such reads to the implementor.            *)
(***************************************************************************)
MaxVertices == 2

PeakHeight == 6

Shapes == { "flat", "plane", "peak", "ridge" }

Sizes == { <<3, 3>>, <<3, 2>> }

Heightfields == { [width |-> sz[1], height |-> sz[2], shape |-> sh] : sz \in Sizes, sh \in Shapes }

\* Heightfield::height_at(x, y)
HeightAt(hf, x, y) ==
    F64(CASE hf.shape = "plane" -> x + 2 * y
          [] hf.shape = "peak" -> (IF x = 1 /\ y = 1 THEN PeakHeight ELSE 0)
          [] hf.shape = "ridge" -> (IF x = 1 THEN PeakHeight - y ELSE y)
          [] OTHER -> 1)

\* w and h of scape: f64::from(width) - 1.0, f64::from(height) - 1.0
FarCorner(hf) == Vec2New(RSub(F64(hf.width), F64(1)), RSub(F64(hf.height), F64(1)))

ScapeBbox(hf) == BboxExpand(BboxNew(Vec2Zero), FarCorner(hf))

\* the four triangulation.insert calls before the candidates are collected
SeedPoints(hf) == << Vec2Zero, FarCorner(hf), FarCorner(hf), FarCorner(hf) >>

\* DelaunayMesh::vertices(tri) / triangle_vertices(tri): the three positions
TriangleVertices(dm, tri) ==
    [i \in 1..3 |-> Position(dm, ArenaGet(dm.triangles, tri).vertices[i])]

\* DelaunayMesh::triangles(): the ids of the triangles in the store, in store order
Triangles(dm) == [i \in 1..Len(dm.triangles) |-> i - 1]

\* height_at at a vertex position, cast to u32 as find_best_candidate does
VertexHeight(hf, v) == HeightAt(hf, AsU32(v.x), AsU32(v.y))

\* BarycentricCoords::triangle(vertices, p) for a triangle of signed area
\* `area`: <<>> when p is outside or the triangle has no area, else the weights
Barycentric(v, area, p) ==
    IF area = F64(0) \/ IsNaN(area) THEN <<>>
    ELSE << RDiv(Cross(v[2], v[3], p), area),
            RDiv(Cross(v[3], v[1], p), area),
            RDiv(Cross(v[1], v[2], p), area) >>

Inside(bary) == bary # <<>> /\ \A i \in 1..3 : RLe(F64(0), bary[i])

\* BarycentricCoords::interpolate(heights)
Interpolate(bary, h1, h2, h3) ==
    RAdd(RAdd(RMul(bary[1], h1), RMul(bary[2], h2)), RMul(bary[3], h3))

\* the filter_map closure of find_best_candidate for the cell (x, y): <<>> for
\* a cell outside the triangle, else <<p, err>>
CellError(hf, bary, h1, h2, h3, x, y) ==
    IF ~Inside(bary) THEN <<>>
    ELSE << Pt(x, y), RSub(HeightAt(hf, x, y), Interpolate(bary, h1, h2, h3)) >>

\* the cells of yrange x xrange in the order flat_map meets them, each mapped
\* through the closure
Scan(hf, v, area, h1, h2, h3, x0, x1, y0, y1) ==
    [i \in 1..((x1 - x0 + 1) * (y1 - y0 + 1)) |->
        CellError(hf,
                  Barycentric(v, area, Pt(x0 + ((i - 1) % (x1 - x0 + 1)), y0 + ((i - 1) \div (x1 - x0 + 1)))),
                  h1, h2, h3,
                  x0 + ((i - 1) % (x1 - x0 + 1)), y0 + ((i - 1) \div (x1 - x0 + 1)))]

\* the step of Iterator::max_by: the earlier element stays only when it
\* compares Greater
MaxByStep(a, b) ==
    IF b = <<>> THEN a
    ELSE IF a = <<>> THEN b
    ELSE IF RLt(b[2], a[2]) THEN a ELSE b

\* max_by over scan[lo..hi]
RECURSIVE MaxBy(_, _, _)
MaxBy(scan, lo, hi) ==
    IF hi < lo THEN <<>>
    ELSE IF lo = hi THEN scan[lo]
    ELSE MaxByStep(MaxBy(scan, lo, (lo + hi) \div 2), MaxBy(scan, ((lo + hi) \div 2) + 1, hi))

BestOfScan(scan) == MaxBy(scan, 1, Len(scan))

\* the scan of the cells of the triangle's box
ScanInBox(hf, v, bbox) ==
    Scan(hf, v, Cross(v[1], v[2], v[3]),
         VertexHeight(hf, v[1]), VertexHeight(hf, v[2]), VertexHeight(hf, v[3]),
         AsU32(bbox.min.x), AsU32(bbox.max.x), AsU32(bbox.min.y), AsU32(bbox.max.y))

FindInBox(hf, v, bbox) == BestOfScan(ScanInBox(hf, v, bbox))

\* find_best_candidate(heightfield, vertices): <<>> for None, else <<p, err>>
FindBestCandidate(hf, v) == FindInBox(hf, v, BboxExpand(BboxExpand(BboxNew(v[1]), v[2]), v[3]))

\* `if let Some((p, err)) = best_candidate { candidates.push((tri, p, err)) }`
PushBest(cands, tri, best) ==
    IF best = <<>> THEN cands ELSE Append(cands, [tri |-> tri, p |-> best[1], err |-> best[2]])

\* the two loops that push the best candidate of each triangle of tris[lo..hi]
RECURSIVE PushCandidates(_, _, _, _, _, _)
PushCandidates(cands, hf, dm, tris, lo, hi) ==
    IF hi < lo \/ ~Strict(cands) THEN cands
    ELSE IF lo = hi THEN PushBest(cands, tris[lo], FindBestCandidate(hf, TriangleVertices(dm, tris[lo])))
    ELSE PushCandidates(PushCandidates(cands, hf, dm, tris, lo, (lo + hi) \div 2),
                        hf, dm, tris, ((lo + hi) \div 2) + 1, hi)

\* the place each candidate takes under
\* sort_by(|(_, _, e1), (_, _, e2)| e2.partial_cmp(e1)): larger errors first,
\* equal errors in their old order (the sort is stable)
SortRanks(c) ==
    [i \in 1..Len(c) |->
        1 + Cardinality({ j \in 1..Len(c) : RLt(c[i].err, c[j].err) \/ (c[j].err = c[i].err /\ j < i) })]

Ranked(c, ranks) == [k \in 1..Len(c) |-> c[CHOOSE i \in 1..Len(c) : ranks[i] = k]]

SortCandidates(c) == Ranked(c, SortRanks(c))

\* the element candidates.pop() takes from the sorted collection
PopIndex(sorted) == Len(sorted)

\* candidates.retain(|(t, _, _)| roi.old_triangles.contains(t))
Retain(cands, old_triangles) == SelectSeq(cands, LAMBDA c : c.tri \in SeqToSet(old_triangles))

\* a loop bound that is one too generous: 0..=max_vertices
BudgetSpent_Inclusive(i, budget) == i > budget

\* the test of `for i in 0..max_vertices`: the loop is over
BudgetSpent(i, budget) == i >= budget

ScapeInit ==
    /\ staleLookup \in StoreDesigns
    /\ hashOrder \in HashOrders
    /\ heightfield \in Heightfields
    /\ max_vertices \in 0..MaxVertices
    /\ input_bbox = ScapeBbox(heightfield)
    /\ mesh = DelaunayMeshNew(input_bbox)
    /\ status = "ok"
    /\ inserted = <<>>
    /\ bad_tris = <<>>
    /\ roi = <<>>
    /\ pc = "seed"
    /\ iter = 0
    /\ candidates = <<>>
    /\ popped = <<>>
    /\ retained = <<>>
    /\ BvhIdle
    /\ ArenaIdle
    /\ GeoIdle
    /\ DescentIdle

\* where scape stands: seeding inserts left, the first candidates to collect,
\* another pass of the loop to run, the loop over
Seeding == pc = "seed" /\ Len(inserted) < Len(SeedPoints(heightfield))

Collecting == pc = "seed" /\ Len(inserted) = Len(SeedPoints(heightfield))

Refining == pc = "loop" /\ ~BudgetSpent(iter, max_vertices) /\ candidates # <<>>

Returning == pc = "loop" /\ (BudgetSpent(iter, max_vertices) \/ candidates = <<>>)

\* one of the four seeding inserts; a failed lookup ends scape
ScapeSeed ==
    /\ Seeding
    /\ \E r \in {DelaunayInsert(mesh, SeedPoints(heightfield)[Len(inserted) + 1], hashOrder, staleLookup)} :
           /\ status' = IF r.panic THEN "panic" ELSE "ok"
           /\ pc' = IF r.panic THEN "aborted" ELSE "seed"
           /\ mesh' = r.mesh
           /\ inserted' = IF r.panic THEN inserted ELSE Append(inserted, SeedPoints(heightfield)[Len(inserted) + 1])
           /\ bad_tris' = IF r.panic THEN bad_tris ELSE r.bad_tris
           /\ roi' = IF r.panic THEN roi ELSE r.roi
    /\ UNCHANGED <<staleLookup, hashOrder, input_bbox, heightfield, max_vertices, iter, candidates, popped, retained>>
    /\ UNCHANGED bvhVars
    /\ UNCHANGED arenaVars
    /\ UNCHANGED geoVars
    /\ UNCHANGED descentVars

\* `for (tri, _) in triangulation.triangles()`: the first candidates
ScapeCandidates ==
    /\ Collecting
    /\ candidates' = PushCandidates(<<>>, heightfield, mesh,
                                    SelectSeq(Triangles(mesh), LAMBDA t : IsLive(mesh.triangles, t)),
                                    1, Cardinality(LiveIds(mesh.triangles)))
    /\ pc' = "loop"
    /\ UNCHANGED meshVars
    /\ UNCHANGED <<heightfield, max_vertices, iter, popped, retained>>
    /\ UNCHANGED bvhVars
    /\ UNCHANGED arenaVars
    /\ UNCHANGED geoVars
    /\ UNCHANGED descentVars

\* one pass of the refinement loop that finds a candidate: sort, pop, insert,
\* retain, push the candidates of the new triangles
ScapeRefine ==
    /\ Refining
    /\ \E sorted \in {SortCandidates(candidates)} :
       \E r \in {DelaunayInsert(mesh, sorted[PopIndex(sorted)].p, hashOrder, staleLookup)} :
       \E kept \in {Retain(SubSeq(sorted, 1, Len(sorted) - 1), r.bad_tris)} :
           /\ popped' = [taken |-> sorted[PopIndex(sorted)], from |-> sorted]
           /\ status' = IF r.panic THEN "panic" ELSE "ok"
           /\ pc' = IF r.panic THEN "aborted" ELSE "loop"
           /\ mesh' = r.mesh
           /\ inserted' = IF r.panic THEN inserted ELSE Append(inserted, sorted[PopIndex(sorted)].p)
           /\ bad_tris' = IF r.panic THEN bad_tris ELSE r.bad_tris
           /\ roi' = IF r.panic THEN roi ELSE r.roi
           /\ retained' = IF r.panic THEN retained ELSE kept
           /\ candidates' = IF r.panic THEN SubSeq(sorted, 1, Len(sorted) - 1)
                            ELSE PushCandidates(kept, heightfield, r.mesh, r.roi, 1, Len(r.roi))
           /\ iter' = IF r.panic THEN iter ELSE iter + 1
    /\ UNCHANGED <<staleLookup, hashOrder, input_bbox, heightfield, max_vertices>>
    /\ UNCHANGED bvhVars
    /\ UNCHANGED arenaVars
    /\ UNCHANGED geoVars
    /\ UNCHANGED descentVars

\* the loop ends: the range 0..max_vertices is exhausted, or pop() found
\* nothing and the loop breaks
ScapeReturn ==
    /\ Returning
    /\ pc' = "done"
    /\ UNCHANGED meshVars
    /\ UNCHANGED <<heightfield, max_vertices, iter, candidates, popped, retained>>
    /\ UNCHANGED bvhVars
    /\ UNCHANGED arenaVars
    /\ UNCHANGED geoVars
    /\ UNCHANGED descentVars

ScapeNext ==
    \/ ScapeSeed
    \/ ScapeCandidates
    \/ ScapeRefine
    \/ ScapeReturn

SpecScape == ScapeInit /\ [][ScapeNext]_vars

(***************************************************************************)
(* Properties of scape                                                     *)
(***************************************************************************)
\* the candidates left after the pop, before retain
Remaining == SubSeq(popped.from, 1, Len(popped.from) - 1)

\* C7: the candidate a refinement pass extracts has the maximum error of all
\* the candidates held at that moment.
C7_ExtractsMaxError ==
    popped # <<>> =>
        \A i \in 1..Len(popped.from) : RLe(popped.from[i].err, popped.taken.err)

\* C8: after a pass's insertion a candidate that was held is dropped exactly
\* when its triangle was removed by that insertion, and every candidate held
\* refers to a live triangle.
C8_DropsExactlyRemoved ==
    (pc \in {"loop", "done"} /\ iter > 0) =>
        /\ \A i \in 1..Len(Remaining) :
               (Remaining[i] \notin SeqToSet(retained)) <=> (Remaining[i].tri \in SeqToSet(bad_tris))
        /\ \A i \in 1..Len(candidates) : IsLive(mesh.triangles, candidates[i].tri)

\* C9: when the refinement loop starts, the points inserted so far are the
\* four corners (0,0), (w,0), (0,h), (w,h), each once.
C9_SeedsFourCorners ==
    (pc = "loop" /\ iter = 0) =>
        /\ Len(inserted) = 4
        /\ SeqToSet(inserted) = Corners(input_bbox)

\* what scape's loop may do: never more than max_vertices insertions, one
\* insertion per pass, and a return before the budget is spent only with no
\* candidate left
LoopWithinBudget ==
    /\ iter <= max_vertices
    /\ pc \in {"loop", "done"} => Len(inserted) = Len(SeedPoints(heightfield)) + iter
    /\ pc = "done" => (iter = max_vertices \/ candidates = <<>>)

\* scape has returned or has been ended by a failed lookup
Ended == pc \in {"done", "aborted"}

\* the steps scape can still take at most
StepsLeft ==
    CASE pc = "seed" -> (Len(SeedPoints(heightfield)) - Len(inserted)) + max_vertices + 2
      [] pc = "loop" -> (max_vertices - iter) + 1
      [] OTHER -> 0

MaxArenaOps == 4

ArenaValues == { "a", "b" }

\* what the arena holds for a value: the value with the store's live mark
Slot(v) == [value |-> v, live |-> TRUE]

\* the ids that were issued and not removed
Usable == { id \in SeqToSet(issued) : IsLive(arena, id) }

ArenaInit ==
    /\ ArenaIdle
    /\ MeshIdle
    /\ ScapeIdle
    /\ BvhIdle
    /\ GeoIdle
    /\ DescentIdle

\* one call arena.push(v)
ArenaPush(v) ==
    /\ Len(arena) < MaxArenaOps
    /\ arena' = ArenaPushData(arena, Slot(v))
    /\ issued' = Append(issued, ArenaPushId(arena))
    /\ shadow' = [id \in DOMAIN shadow \cup {ArenaPushId(arena)} |->
                     IF id = ArenaPushId(arena) THEN v ELSE shadow[id]]
    /\ UNCHANGED <<meshVars, scapeVars, bvhVars, geoVars, descentVars>>

\* one call arena.replace(id, v) with an id that is in use
ArenaReplaceCall(id, v) ==
    /\ id \in Usable
    /\ ArenaGet(arena, id).value # v
    /\ arena' = ArenaReplace(arena, id, Slot(v))
    /\ shadow' = [shadow EXCEPT ![id] = v]
    /\ UNCHANGED issued
    /\ UNCHANGED <<meshVars, scapeVars, bvhVars, geoVars, descentVars>>

\* one call arena.remove(id) with an id that is in use, as
\* DelaunayMesh::insert does for each bad triangle
ArenaRemoveCall(id) ==
    /\ id \in Usable
    /\ arena' = ArenaRemove(arena, id)
    /\ UNCHANGED <<issued, shadow>>
    /\ UNCHANGED <<meshVars, scapeVars, bvhVars, geoVars, descentVars>>

ArenaNext ==
    \/ \E v \in ArenaValues : ArenaPush(v)
    \/ \E id \in 0..(MaxArenaOps - 1), v \in ArenaValues : ArenaReplaceCall(id, v)
    \/ \E id \in 0..(MaxArenaOps - 1) : ArenaRemoveCall(id)

SpecArena == ArenaInit /\ [][ArenaNext]_vars

\* C11: push returns an id no earlier push returned, and get(id) of an issued,
\* non-removed id is the value last stored under it, whatever was pushed,
\* replaced or removed since.
C11_FreshIdsStableValues ==
    /\ \A i, j \in 1..Len(issued) : i # j => issued[i] # issued[j]
    /\ \A id \in Usable : ArenaHas(arena, id) /\ ArenaGet(arena, id).value = shadow[id]

\* an id was removed, a later push happened, and an older id is still in use
\* with a value that differs from the one pushed last
C11_Witness ==
    /\ Len(issued) >= 3
    /\ \E i \in 1..(Len(issued) - 1) : ~IsLive(arena, issued[i])
    /\ IsLive(arena, issued[Len(issued)])
    /\ \E id \in Usable : id # issued[Len(issued)] /\ shadow[id] # shadow[issued[Len(issued)]]

(***************************************************************************)
(* The functions of geo.rs called directly, one call a run, on boxes and   *)
(* points of a small grid                                                  *)
(***************************************************************************)
GeoMax == 2

GeoPoints == { Pt(x, y) : x, y \in 0..GeoMax }

GeoBoxes == { BboxExpand(BboxNew(p), q) : p, q \in GeoPoints }

\* the pivots tried on a box: the grid points and the box's centre
Pivots(b) == GeoPoints \cup { BboxCenter(b) }

GeoInit ==
    /\ GeoIdle
    /\ DescentIdle
    /\ MeshIdle
    /\ ScapeIdle
    /\ BvhIdle
    /\ ArenaIdle

\* one call Circle::circumcircle(a, b, c)
CircumcircleCall(a, b, c) ==
    /\ call.op = "none"
    /\ call' = [op |-> "circumcircle", a |-> a, b |-> b, c |-> c, result |-> Circumcircle(a, b, c)]
    /\ UNCHANGED <<meshVars, scapeVars, bvhVars, arenaVars, descentVars>>

\* one call box.split(pivot); debug_assert!(self.contains(p)) stops a debug
\* build when the pivot is outside, a release build splits all the same
SplitCall(box, pivot) ==
    /\ call.op = "none"
    /\ \E checked \in BOOLEAN :
          call' = [op |-> "split", box |-> box, pivot |-> pivot,
                   result |-> IF checked /\ ~BboxContains(box, pivot)
                              THEN <<>> ELSE BboxSplit(box, pivot)]
    /\ UNCHANGED <<meshVars, scapeVars, bvhVars, arenaVars, descentVars>>

GeoNext ==
    \/ \E a, b, c \in GeoPoints : CircumcircleCall(a, b, c)
    \/ \E box \in GeoBoxes : \E pivot \in Pivots(box) : SplitCall(box, pivot)

SpecGeo == GeoInit /\ [][GeoNext]_vars

Dist2(p, q) == Norm2(Vec2Sub(p, q))

Radius2(c) == Dist2(c.center, c.through)

Area(b) == RMul(RSub(b.max.x, b.min.x), RSub(b.max.y, b.min.y))

\* the area two boxes have in common
Overlap(b, c) ==
    RMul(RMax(F64(0), RSub(RMin(b.max.x, c.max.x), RMax(b.min.x, c.min.x))),
         RMax(F64(0), RSub(RMin(b.max.y, c.max.y), RMax(b.min.y, c.min.y))))

\* the points of the half-unit grid on and around the boxes
HalfGrid == { Vec2New(RNorm(i, 2), RNorm(j, 2)) : i, j \in (-1)..(2 * GeoMax + 1) }

\* C13: split at a pivot inside the box gives the bottom-left, bottom-right,
\* top-left and top-right boxes, each with min <= max, whose areas add up to
\* the box's, whose union is the box and which overlap in no area.
C13_SplitQuarters ==
    (call.op = "split" /\ BboxContains(call.box, call.pivot)) =>
        /\ Len(call.result) = 4
        /\ BboxContains(call.result[1], call.box.min) /\ call.result[1].max = call.pivot
        /\ BboxContains(call.result[2], Vec2New(call.box.max.x, call.box.min.y))
        /\ BboxContains(call.result[3], Vec2New(call.box.min.x, call.box.max.y))
        /\ BboxContains(call.result[4], call.box.max) /\ call.result[4].min = call.pivot
        /\ \A k \in 1..4 : /\ RLe(call.result[k].min.x, call.result[k].max.x)
                           /\ RLe(call.result[k].min.y, call.result[k].max.y)
        /\ RAdd(RAdd(Area(call.result[1]), Area(call.result[2])),
                RAdd(Area(call.result[3]), Area(call.result[4]))) = Area(call.box)
        /\ \A q \in HalfGrid :
               BboxContains(call.box, q) <=> \E k \in 1..4 : BboxContains(call.result[k], q)
        /\ \A k, m \in 1..4 : k # m => Overlap(call.result[k], call.result[m]) = F64(0)

\* a split of a box with area at a pivot strictly inside it
C13_Witness ==
    /\ call.op = "split"
    /\ Len(call.result) = 4
    /\ RLt(call.box.min.x, call.pivot.x) /\ RLt(call.pivot.x, call.box.max.x)
    /\ RLt(call.box.min.y, call.pivot.y) /\ RLt(call.pivot.y, call.box.max.y)

(***************************************************************************)
(* Further properties of the mesh                                          *)
(***************************************************************************)
\* the edges of a stored triangle (removed or not) as unordered pairs
UEdges(tid) == { {e[1], e[2]} : e \in TriEdges(ArenaGet(mesh.triangles, tid)) }

\* the bad triangles of the last insert that have the edge
BadWith(edge) == { tid \in SeqToSet(bad_tris) : edge \in UEdges(tid) }

\* the edges of the cavity of the last insert: in exactly one bad triangle
CavityEdges == { edge \in UNION { UEdges(tid) : tid \in SeqToSet(bad_tris) } : Cardinality(BadWith(edge)) = 1 }

\* the vertex the last insert pushed
NewVertex == Len(mesh.vertices) - 1

\* the triangles of the ROI built on the edge and the new vertex
RoiOn(edge) == { i \in 1..Len(roi) : VertSet(roi[i]) = edge \cup {NewVertex} }

\* C14: the ROI of an insert holds exactly one new triangle (v0, v1, new
\* vertex) for each edge in exactly one bad triangle, none for an edge two
\* bad triangles share, and as many triangles as there are such edges.
C14_OneTrianglePerCavityEdge ==
    inserted # <<>> =>
        /\ \A edge \in CavityEdges : Cardinality(RoiOn(edge)) = 1
        /\ \A edge \in UNION { UEdges(tid) : tid \in SeqToSet(bad_tris) } :
               Cardinality(BadWith(edge)) >= 2 => RoiOn(edge) = {}
        /\ Len(roi) = Cardinality(CavityEdges)

\* the pairs the index holds, as triangle ids
Indexed == { pr[1] : pr \in SeqToSet(Stored(mesh.triangles_index)) }

\* C15: the triangle ids the index holds are exactly the live triangles, so
\* that an insert, which hands every id it meets in the index to the predicate,
\* never looks up a removed triangle.
C15_IndexHoldsLiveOnly == Indexed = LiveTriangles

\* C18: an insert appends the inserted point to the vertex store, also when
\* the store already holds that position, and no step changes or removes a
\* vertex stored before.
C18_VertexStoreAppendOnly ==
    [][/\ Len(mesh'.vertices) >= Len(mesh.vertices)
       /\ \A i \in 1..Len(mesh.vertices) : mesh'.vertices[i] = mesh.vertices[i]
       /\ inserted' # inserted =>
              mesh'.vertices = ArenaPushData(mesh.vertices, inserted'[Len(inserted')])]_vars

\* the same point was inserted twice, both inserts stored a vertex, and a
\* vertex is still stored that no live triangle has
C18_Witness ==
    /\ Len(inserted) >= 2
    /\ inserted[1] = inserted[2]
    /\ Len(mesh.vertices) = Len(DelaunayMeshNew(input_bbox).vertices) + Len(inserted)
    /\ \E v \in 0..(Len(mesh.vertices) - 1) : \A tid \in LiveTriangles : v \notin VertSet(tid)

(***************************************************************************)
(* Further properties of scape                                             *)
(***************************************************************************)
\* the scan find_best_candidate made of a stored triangle
ScanOf(tri) ==
    ScanInBox(heightfield, TriangleVertices(mesh, tri),
              BboxExpand(BboxExpand(BboxNew(TriangleVertices(mesh, tri)[1]),
                                    TriangleVertices(mesh, tri)[2]),
                         TriangleVertices(mesh, tri)[3]))

\* best is in the scan and no cell met before it has the same error
FirstOfEquals(scan, best) ==
    \A j \in 1..Len(scan) :
        scan[j] = best => \A k \in 1..(j - 1) : scan[k] = <<>> \/ scan[k][2] # best[2]

\* the candidates pushed by the last step of scape
LastPushed == { i \in 1..Len(candidates) : candidates[i] \notin SeqToSet(retained) }

\* C16: the candidate of a triangle is, among the cells of maximal error, the
\* one the scan meets first.
C16_FirstMaximumWins ==
    \A i \in LastPushed :
        FirstOfEquals(ScanOf(candidates[i].tri), <<candidates[i].p, candidates[i].err>>)

\* Heightfield::height_at(x, y) is called inside the field
InField(x, y) == x < heightfield.width /\ y < heightfield.height

\* C17: every height_at call of scape, for a scanned cell or for a vertex of
\* the scanned triangle, is inside the field.
C17_ReadsInsideField ==
    \A i \in LastPushed :
        /\ InField(AsU32(candidates[i].p.x), AsU32(candidates[i].p.y))
        /\ \A k \in 1..3 : InField(AsU32(TriangleVertices(mesh, candidates[i].tri)[k].x),
                                   AsU32(TriangleVertices(mesh, candidates[i].tri)[k].y))

(***************************************************************************)
(* Further properties of the spatial index                                 *)
(***************************************************************************)
\* the leaves of the tree
RECURSIVE Leaves(_)
Leaves(n) ==
    IF n.kind = "Leaf" THEN {n}
    ELSE UNION { Leaves(n.children[k]) : k \in 1..4 }

\* C19: the box of every leaf contains the reference point of every pair the
\* leaf holds.
C19_LeafBoxHoldsRefpoints ==
    \A leaf \in Leaves(bvh) : \A i \in 1..Len(leaf.elems) : BboxContains(leaf.bbox, leaf.elems[i][2])

\* a leaf holds a pair whose reference point is outside the box the index was
\* created with; the pair went through a split
C19_Witness ==
    /\ bvh.kind = "Branch"
    /\ \E leaf \in Leaves(bvh) : \E i \in 1..Len(leaf.elems) : ~BboxContains(BvhBox, leaf.elems[i][2])

\* C20: after every insert every leaf holds at most 64 pairs.
C20_LeavesWithinCapacity == \A leaf \in Leaves(bvh) : Len(leaf.elems) <= 64

\* more than 64 pairs went into one quarter of the root: the quarter was split
\* in its turn
C20_Witness ==
    /\ bvh.kind = "Branch"
    /\ \E k \in 1..4 : bvh.children[k].kind = "Branch" /\ Len(Stored(bvh.children[k])) > 64

\* C21: when every reference point inserted so far lies inside the box the
\* index was created with, the leaves hold exactly the inserted pairs, each
\* once: as many stored pairs as insert calls, none dropped, none duplicated.
C21_EveryPairStoredOnce ==
    (\A i \in 1..Len(pairs) : BboxContains(BvhBox, pairs[i][2]))
        => /\ Len(Stored(bvh)) = Len(pairs)
           /\ SeqToSet(Stored(bvh)) = SeqToSet(pairs)
           /\ \A i \in 1..Len(pairs) :
                 Cardinality({ leaf \in Leaves(bvh) : pairs[i] \in SeqToSet(leaf.elems) }) = 1

\* every reference point is inside the box, the root and one of its quarters
\* were split, and a pair sits on the split lines of the root, where all four
\* quarters contain it
C21_Witness ==
    /\ \A i \in 1..Len(pairs) : BboxContains(BvhBox, pairs[i][2])
    /\ bvh.kind = "Branch"
    /\ \E k \in 1..4 : bvh.children[k].kind = "Branch"
    /\ \E i \in 1..Len(pairs) :
          \A k \in 1..4 : BboxContains(bvh.children[k].bbox, pairs[i][2])

(***************************************************************************)
(* bvh.rs: one Bvh::insert followed down the tree, one activation of       *)
(* BvhNode::insert per step                                                *)
(***************************************************************************)
\* the deepest activation followed
MaxDepth == 12

\* a point, its two neighbours in the format, and points apart from it
DescentPoints ==
    { Pt(5, 5), Vec2New(RAdd(F64(5), Ulp), F64(5)), Vec2New(RAdd(F64(5), RAdd(Ulp, Ulp)), F64(5)),
      Pt(0, 0), Pt(11, 3), Pt(16, 16) }

\* the leaf holds 63 or 64 pairs of one reference point; the call brings one more pair
DescentInit ==
    /\ \E held \in { LeafCapacity - 1, LeafCapacity } : \E p \in DescentPoints :
          at_node = Leaf([i \in 1..held |-> <<i - 1, p>>], BvhBox)
    /\ \E q \in DescentPoints : at_pair = <<Len(at_node.elems), q>>
    /\ at_depth = 0
    /\ at_pc = "insert"
    /\ MeshIdle
    /\ ScapeIdle
    /\ BvhIdle
    /\ ArenaIdle
    /\ GeoIdle

\* the four empty children of the split of a leaf with this box
SplitChildren(bbox) ==
    LET quads == BboxSplit(bbox, BboxCenter(bbox))
    IN  [k \in 1..4 |-> Leaf(<<>>, quads[k])]

\* the child that the drain hands every pair of elems to, 0 when there is no such child
SoleChild(children, elems) ==
    LET k == FirstChild(children, elems[1][2])
    IN  IF k # 0 /\ \A i \in 1..Len(elems) : FirstChild(children, elems[i][2]) = k
        THEN k ELSE 0

\* the activation pushes the pair, the leaf is within its capacity: insert returns
InsertPush ==
    /\ at_pc = "insert"
    /\ Len(at_node.elems) + 1 <= LeafCapacity
    /\ at_node' = Leaf(Append(at_node.elems, at_pair), BboxExpand(at_node.bbox, at_pair[2]))
    /\ at_pc' = "returned"
    /\ UNCHANGED <<at_pair, at_depth>>
    /\ UNCHANGED <<meshVars, scapeVars, bvhVars, arenaVars, geoVars>>

\* the activation pushes the pair and splits the leaf; no child takes more
\* than 64 pairs, so every child.insert of the drain is a push: insert returns
SplitReturn ==
    /\ at_pc = "insert"
    /\ Len(at_node.elems) + 1 > LeafCapacity
    /\ \E elems \in { Append(at_node.elems, at_pair) } :
       \E bbox \in { BboxExpand(at_node.bbox, at_pair[2]) } :
       \E children \in { SplitChildren(bbox) } :
          /\ SoleChild(children, elems) = 0
          /\ at_node' = Branch(bbox, Redistribute(children, elems, 1, Len(elems)))
    /\ at_pc' = "returned"
    /\ UNCHANGED <<at_pair, at_depth>>
    /\ UNCHANGED <<meshVars, scapeVars, bvhVars, arenaVars, geoVars>>

\* the activation pushes the pair and splits the leaf; one child takes every
\* pair: its 65th child.insert finds it with 64 pairs and is the next activation
SplitRecurse ==
    /\ at_pc = "insert"
    /\ at_depth < MaxDepth
    /\ Len(at_node.elems) + 1 > LeafCapacity
    /\ \E elems \in { Append(at_node.elems, at_pair) } :
       \E bbox \in { BboxExpand(at_node.bbox, at_pair[2]) } :
       \E children \in { SplitChildren(bbox) } :
       \E k \in { SoleChild(children, elems) } :
          /\ k # 0
          /\ at_node' = Redistribute(children, elems, 1, LeafCapacity)[k]
          /\ at_pair' = elems[Len(elems)]
    /\ at_depth' = at_depth + 1
    /\ UNCHANGED at_pc
    /\ UNCHANGED <<meshVars, scapeVars, bvhVars, arenaVars, geoVars>>

DescentNext ==
    \/ InsertPush
    \/ SplitReturn
    \/ SplitRecurse

SpecDescent == DescentInit /\ [][DescentNext]_vars

\* C22: every Bvh::insert returns after finitely many splits, also when the
\* 65 pairs of a full leaf have one reference point or reference points that
\* no quartering separates. What an activation of BvhNode::insert does is a
\* function of the leaf and the pair it is called with, so an insert returns
\* only if no activation calls the next one with the leaf and the pair it was
\* called with itself: every split that hands all its pairs to one child
\* hands them to a leaf other than the one that was split.
C22_EverySplitMovesOn ==
    [][(at_pc = "insert" /\ at_pc' = "insert") => <<at_node, at_pair>>' # <<at_node, at_pair>>]_vars

====
